---- MODULE Spec2Model ----
(***************************************************************************)
(* Model of modules/superspreaders.py: the interaction graph built from    *)
(* the post and comment relations (build_interaction_graph), the           *)
(* centrality table (compute_centralities), the top-N table and the        *)
(* subgraph image (save_top_influencers, draw_graph), and the run that     *)
(* chains them (detect_superspreaders).                                    *)
(*                                                                         *)
(* A CSV file is a record [exists, cols, rows]: cols is the header, rows   *)
(* the sequence of rows, each a tuple aligned with cols.  A missing cell   *)
(* is NA (pandas reads an empty cell as NaN).  A graph is a record         *)
(* [nodes, appended, weight, type]: nodes is the vertex set, appended the  *)
(* vertices that add_edge inserted after the initial ones (in insertion    *)
(* order), weight and type are functions on the edge set, an edge being    *)
(* the set {u, v} of its endpoints (a self-loop is a singleton).           *)
(*                                                                         *)
(* main.py runs detect_superspreaders as the fifth step of a pipeline that *)
(* writes the two files first: main_pc is the position of main ("none"     *)
(* when the functions are called on their own), fresh the set of the files *)
(* ("posts", "comments") written so far in this run of main.               *)
(***************************************************************************)
EXTENDS Integers, Sequences, FiniteSets, TLC

VARIABLES posts_csv, comments_csv, min_edge_weight, top_n,
          pc, posts_df, comments_df, G, df_cent, out_csv, out_png,
          raised, returned, main_pc, fresh

vars == << posts_csv, comments_csv, min_edge_weight, top_n,
           pc, posts_df, comments_df, G, df_cent, out_csv, out_png,
           raised, returned, main_pc, fresh >>

----------------------------------------------------------------------------
(* Bounds of the model and the values the inputs are drawn from.           *)

MaxRows == 4
MaxMinWeight == 2
RunMaxRows == 2
MaxTopN == 1
MainMaxRows == 2

DefaultMinEdgeWeight == 1
DefaultTopN == 50

Users == {"alice", "bob", "carol"}
RunUsers == {"alice", "bob"}
Pids == {"p1", "p2"}
NA == "NaN"
Deleted == "[deleted]"
Unknown == "[unknown]"

(* Python's order on the strings of the model (code point order).          *)
StrOrder ==
    << " p1", "0", "1", "2", "3", "4", "NaN", "[deleted]", "[unknown]",
       "alice", "bob", "carol", "p1", "p2" >>

LexRank(s) == CHOOSE i \in DOMAIN StrOrder : StrOrder[i] = s

SeqsUpTo(S, n) == UNION { [1..k -> S] : k \in 0..n }

Min(a, b) == IF a < b THEN a ELSE b
Max(a, b) == IF a > b THEN a ELSE b

(* The elements of a sequence in order of first occurrence                 *)
(* (pandas.Series.unique, the key order of a Counter).                     *)
RECURSIVE Distinct(_)
Distinct(s) ==
    IF s = << >> THEN << >>
    ELSE LET r == Distinct(SubSeq(s, 1, Len(s) - 1))
             x == s[Len(s)]
         IN  IF \E i \in DOMAIN r : r[i] = x THEN r ELSE Append(r, x)

Range(s) == { s[i] : i \in DOMAIN s }

----------------------------------------------------------------------------
(* _read_csv_flex and the checks on its result.                            *)

AbsentFile == [exists |-> FALSE, cols |-> << >>, rows |-> << >>]

File(cols, rows) == [exists |-> TRUE, cols |-> cols, rows |-> rows]

InputsPresent_OnlyPosts == posts_csv.exists

InputsPresent == posts_csv.exists /\ comments_csv.exists

----------------------------------------------------------------------------
(* Column resolution.  The column names of the model are lower case: id,   *)
(* post_id, url, author, comment_author, title, body.  Substrings(c) is    *)
(* the set of the words the code looks for that occur in the name c.       *)

Substrings(c) ==
    CASE c = "id" -> {"id"}
      [] c = "post_id" -> {"post", "id"}
      [] c = "url" -> {"url"}
      [] c = "author" -> {"author"}
      [] c = "comment_author" -> {"author"}
      [] OTHER -> {}

(* Index of the first column whose name is in ok, 0 for None.              *)
FirstCol(cols, ok) ==
    IF \E i \in DOMAIN cols : cols[i] \in ok
    THEN CHOOSE i \in DOMAIN cols :
            cols[i] \in ok /\ \A j \in 1..(i - 1) : cols[j] \notin ok
    ELSE 0

(* The names of cols that satisfy a substring test.                        *)
Containing(cols, words) ==
    { cols[i] : i \in { k \in DOMAIN cols : Substrings(cols[k]) \cap words # {} } }

PostIdExact == {"id", "post_id", "link_id", "name", "permalink", "url"}
PostIdLike(cols) == Containing(cols, {"id", "link", "perma", "url"})
PostAuthorExact == {"author", "post_author", "username", "by"}
PostAuthorLike(cols) == Containing(cols, {"author", "user", "by"})

PostIdCol(cols) ==
    IF FirstCol(cols, PostIdExact) # 0 THEN FirstCol(cols, PostIdExact)
    ELSE FirstCol(cols, PostIdLike(cols))

PostAuthorCol(cols) ==
    IF FirstCol(cols, PostAuthorExact) # 0 THEN FirstCol(cols, PostAuthorExact)
    ELSE FirstCol(cols, PostAuthorLike(cols))

CommentPostExact == {"post_id", "link_id", "post", "permalink", "url"}
CommentPostLike(cols) == Containing(cols, {"post", "link", "perma", "url"})
CommentAuthorExact == {"author", "comment_author", "user", "username", "by"}

CommentPostCol(cols) ==
    IF FirstCol(cols, CommentPostExact) # 0 THEN FirstCol(cols, CommentPostExact)
    ELSE IF FirstCol(cols, CommentPostLike(cols)) # 0
         THEN FirstCol(cols, CommentPostLike(cols))
         ELSE 1

CommentAuthorCol_AlwaysFirst(cols) ==
    IF FirstCol(cols, CommentAuthorExact) # 0
    THEN FirstCol(cols, CommentAuthorExact)
    ELSE 1

CommentAuthorCol(cols) ==
    IF FirstCol(cols, CommentAuthorExact) # 0
    THEN FirstCol(cols, CommentAuthorExact)
    ELSE IF Len(cols) > 1 THEN 2 ELSE 1

----------------------------------------------------------------------------
(* Normalisation to the two relations (post_id, post_author) and           *)
(* (post_id, comment_author).                                              *)

FillNa(v) == IF v = NA THEN Deleted ELSE v

(* str.strip on the identifiers of the model.                              *)
Strip(s) == IF s = " p1" THEN "p1" ELSE s

NormalizePosts(f) ==
    LET ic == PostIdCol(f.cols)
        ac == PostAuthorCol(f.cols)
    IN  [ i \in DOMAIN f.rows |->
            [ post_id |->
                IF ic # 0 THEN Strip(FillNa(f.rows[i][ic]))
                ELSE IF \E k \in DOMAIN f.cols : f.cols[k] = "permalink"
                     THEN Strip(FillNa(f.rows[i][FirstCol(f.cols, {"permalink"})]))
                ELSE IF \E k \in DOMAIN f.cols : f.cols[k] = "url"
                     THEN Strip(FillNa(f.rows[i][FirstCol(f.cols, {"url"})]))
                ELSE ToString(i - 1),
              post_author |->
                IF ac # 0 THEN FillNa(f.rows[i][ac]) ELSE Unknown ] ]

NormalizeComments(f) ==
    [ i \in DOMAIN f.rows |->
        [ post_id |-> Strip(FillNa(f.rows[i][CommentPostCol(f.cols)])),
          comment_author |-> FillNa(f.rows[i][CommentAuthorCol(f.cols)]) ] ]

----------------------------------------------------------------------------
(* The graph.                                                              *)

EmptyGraph ==
    [nodes |-> {}, appended |-> << >>, weight |-> << >>, type |-> << >>]

Edges(g) == DOMAIN g.weight

HasEdge(g, a, b) == {a, b} \in Edges(g)

Weight(g, a, b) == IF HasEdge(g, a, b) THEN g.weight[{a, b}] ELSE 0

(* nx.Graph.add_edge: inserts the endpoints it does not know, then the     *)
(* edge with its attributes.                                               *)
AddEdge(g, a, b, w, t) ==
    LET new == SelectSeq(Distinct(<< a, b >>), LAMBDA x : x \notin g.nodes)
        e == {a, b}
    IN  [ nodes |-> g.nodes \cup e,
          appended |-> g.appended \o new,
          weight |-> [ x \in Edges(g) \cup {e} |-> IF x = e THEN w ELSE g.weight[x] ],
          type |-> [ x \in Edges(g) \cup {e} |-> IF x = e THEN t ELSE g.type[x] ] ]

(* G[a][b]["weight"] += w, else add_edge(a, b, weight=w, type=t).          *)
Accumulate(g, a, b, w, t) ==
    IF HasEdge(g, a, b)
    THEN [g EXCEPT !.weight[{a, b}] = @ + w]
    ELSE AddEdge(g, a, b, w, t)

AllUsers(pdf, cdf) ==
    { pdf[i].post_author : i \in DOMAIN pdf }
        \cup { cdf[i].comment_author : i \in DOMAIN cdf }

RECURSIVE Merge_FirstMatch(_, _)
Merge_FirstMatch(cdf, pdf) ==
    IF cdf = << >> THEN << >>
    ELSE LET c == Head(cdf)
             hits == SelectSeq(pdf, LAMBDA p : p.post_id = c.post_id)
             rows == << [post_id |-> c.post_id,
                         comment_author |-> c.comment_author,
                         post_author |-> IF hits = << >> THEN NA
                                         ELSE hits[1].post_author] >>
         IN  rows \o Merge_FirstMatch(Tail(cdf), pdf)

(* comments_df.merge(posts_df, on="post_id", how="left"): one row per      *)
(* matching post row, in order, or one row with a NaN post author.         *)
RECURSIVE Merge(_, _)
Merge(cdf, pdf) ==
    IF cdf = << >> THEN << >>
    ELSE LET c == Head(cdf)
             hits == SelectSeq(pdf, LAMBDA p : p.post_id = c.post_id)
             rows == IF hits = << >>
                     THEN << [post_id |-> c.post_id,
                              comment_author |-> c.comment_author,
                              post_author |-> NA] >>
                     ELSE [ k \in DOMAIN hits |->
                              [post_id |-> c.post_id,
                               comment_author |-> c.comment_author,
                               post_author |-> hits[k].post_author] ]
         IN  rows \o Merge(Tail(cdf), pdf)

RowPostAuthor(row) == IF row.post_author # NA THEN row.post_author ELSE Deleted

KeepPair_NoSelfCheck(row) ==
    /\ row.comment_author # ""
    /\ row.comment_author # Deleted

(* The rows of the joined table that yield an (author, commenter) pair.    *)
KeepPair(row) ==
    /\ row.comment_author # ""
    /\ row.comment_author # Deleted
    /\ row.comment_author # RowPostAuthor(row)

AuthorCommentPairs(merged) ==
    LET kept == SelectSeq(merged, KeepPair)
    IN  [ i \in DOMAIN kept |-> << RowPostAuthor(kept[i]), kept[i].comment_author >> ]

CounterOf(pairs, p) == Cardinality({ i \in DOMAIN pairs : pairs[i] = p })

RECURSIVE AddCounted(_, _, _, _)
AddCounted(g, keys, pairs, m) ==
    IF keys = << >> THEN g
    ELSE LET k == Head(keys)
             w == CounterOf(pairs, k)
         IN  AddCounted(IF w >= m
                        THEN Accumulate(g, k[1], k[2], w, "author_comment")
                        ELSE g,
                        Tail(keys), pairs, m)

ReplyPass(g, cdf, pdf, m) ==
    LET pairs == AuthorCommentPairs(Merge(cdf, pdf))
    IN  AddCounted(g, Distinct(pairs), pairs, m)

(* comments_df.groupby("post_id"): the keys in sorted order.               *)
GroupKeys(cdf) ==
    SelectSeq(StrOrder, LAMBDA s : \E i \in DOMAIN cdf : cdf[i].post_id = s)

Commenters_PerComment(cdf, pid) ==
    LET grp == SelectSeq(cdf, LAMBDA c : c.post_id = pid)
    IN  [ i \in DOMAIN grp |-> grp[i].comment_author ]

(* list(group["comment_author"].unique()) of the group of pid.             *)
Commenters(cdf, pid) ==
    LET grp == SelectSeq(cdf, LAMBDA c : c.post_id = pid)
    IN  Distinct([ i \in DOMAIN grp |-> grp[i].comment_author ])

(* itertools.combinations(commenters, 2) as a sequence of index pairs.     *)
RECURSIVE Combinations2(_, _, _)
Combinations2(n, i, j) ==
    IF i >= n THEN << >>
    ELSE IF j > n THEN Combinations2(n, i + 1, i + 2)
    ELSE << << i, j >> >> \o Combinations2(n, i, j + 1)

RECURSIVE AddCoPairs(_, _, _)
AddCoPairs(g, commenters, combos) ==
    IF combos = << >> THEN g
    ELSE LET u == commenters[Head(combos)[1]]
             v == commenters[Head(combos)[2]]
         IN  AddCoPairs(IF u = v THEN g
                        ELSE Accumulate(g, u, v, 1, "co_comment"),
                        commenters, Tail(combos))

RECURSIVE CoGroups(_, _, _)
CoGroups(g, keys, cdf) ==
    IF keys = << >> THEN g
    ELSE LET commenters == Commenters(cdf, Head(keys))
         IN  CoGroups(IF Len(commenters) < 2 THEN g
                      ELSE AddCoPairs(g, commenters,
                                      Combinations2(Len(commenters), 1, 2)),
                      Tail(keys), cdf)

CoCommentPass(g, cdf) == CoGroups(g, GroupKeys(cdf), cdf)

(* The graph build_interaction_graph returns for two normalised relations  *)
(* (lines 107-150).                                                        *)
BuildGraph(pdf, cdf, m) ==
    CoCommentPass(ReplyPass([EmptyGraph EXCEPT !.nodes = AllUsers(pdf, cdf)],
                            cdf, pdf, m),
                  cdf)

----------------------------------------------------------------------------
(* build_interaction_graph, in the three stretches of its body.            *)

NoOutput == [written |-> FALSE, rows |-> << >>]
NoImage == [written |-> FALSE, nodes |-> {}]

(* lines 24-30: a missing file raises FileNotFoundError.                    *)
LoadFails ==
    /\ pc = "start"
    /\ ~InputsPresent
    /\ pc' = "failed"
    /\ raised' = "FileNotFoundError"
    /\ UNCHANGED << posts_csv, comments_csv, min_edge_weight, top_n, posts_df,
                    comments_df, G, df_cent, out_csv, out_png, returned,
                    main_pc, fresh >>

(* lines 24-113: read, resolve the columns, normalise, add the vertices.   *)
LoadAndAddNodes ==
    /\ pc = "start"
    /\ InputsPresent
    /\ posts_df' = NormalizePosts(posts_csv)
    /\ comments_df' = NormalizeComments(comments_csv)
    /\ G' = [EmptyGraph EXCEPT !.nodes = AllUsers(posts_df', comments_df')]
    /\ pc' = "nodes"
    /\ UNCHANGED << posts_csv, comments_csv, min_edge_weight, top_n, df_cent,
                    out_csv, out_png, raised, returned, main_pc, fresh >>

(* lines 115-135: the author <-> commenter edges.                          *)
ReplyEdges ==
    /\ pc = "nodes"
    /\ G' = ReplyPass(G, comments_df, posts_df, min_edge_weight)
    /\ pc' = "reply"
    /\ UNCHANGED << posts_csv, comments_csv, min_edge_weight, top_n, posts_df,
                    comments_df, df_cent, out_csv, out_png, raised, returned,
                    main_pc, fresh >>

(* lines 137-150: the co-comment edges; the graph is returned.             *)
CoCommentEdges ==
    /\ pc = "reply"
    /\ G' = CoCommentPass(G, comments_df)
    /\ pc' = "built"
    /\ UNCHANGED << posts_csv, comments_csv, min_edge_weight, top_n, posts_df,
                    comments_df, df_cent, out_csv, out_png, raised, returned,
                    main_pc, fresh >>

----------------------------------------------------------------------------
(* compute_centralities.  Scores are fixed-point numbers: the integer k    *)
(* stands for k / Unit.                                                    *)

Unit == 60 * 1000

(* The sum of the values of the function f over the set S.                *)
RECURSIVE SetSum(_, _)
SetSum(S, f) ==
    IF S = {} THEN 0
    ELSE LET x == CHOOSE y \in S : TRUE
         IN  f[x] + SetSum(S \ {x}, f)

Nbrs(g, v) == { u \in g.nodes : {u, v} \in Edges(g) }

(* nx.degree_centrality: 1 for every vertex of a graph with at most one    *)
(* vertex, else the degree over |V| - 1 (a self-loop counts twice).        *)
DegreeCentrality(g) ==
    LET n == Cardinality(g.nodes)
    IN  [ v \in g.nodes |->
            IF n <= 1 THEN Unit
            ELSE ((Cardinality(Nbrs(g, v) \ {v})
                    + (IF {v} \in Edges(g) THEN 2 ELSE 0)) * Unit) \div (n - 1) ]

(* Breadth-first search from the frontier at distance k: the distance of  *)
(* t, -1 when t is not reached.                                            *)
RECURSIVE BFS(_, _, _, _, _)
BFS(g, frontier, seen, k, t) ==
    IF t \in frontier THEN k
    ELSE LET next == { u \in g.nodes \ seen :
                          \E p \in frontier : {u, p} \in Edges(g) }
         IN  IF next = {} THEN -1
             ELSE BFS(g, next, seen \cup next, k + 1, t)

(* Length of the shortest path from s to t, -1 when there is none.         *)
Dist(g, s, t) == BFS(g, {s}, {s}, 0, t)

(* Number of shortest paths from s to t.                                   *)
RECURSIVE Sigma(_, _, _)
Sigma(g, s, t) ==
    IF s = t THEN 1
    ELSE LET d == Dist(g, s, t)
         IN  IF d < 0 THEN 0
             ELSE LET before == { u \in Nbrs(g, t) : Dist(g, s, u) = d - 1 }
                  IN  SetSum(before, [ u \in before |-> Sigma(g, s, u) ])

(* nx.betweenness_centrality(G, normalized=True): the share of the         *)
(* shortest s-t paths through v, summed over the ordered pairs (s, t),     *)
(* over (|V| - 1)(|V| - 2); not rescaled when |V| <= 2.                    *)
BetweennessCentrality(g) ==
    LET n == Cardinality(g.nodes)
        share(v, st) ==
            LET s == st[1]
                t == st[2]
                d == Dist(g, s, t)
            IN  IF d > 0 /\ Dist(g, s, v) > 0 /\ Dist(g, v, t) > 0
                   /\ Dist(g, s, v) + Dist(g, v, t) = d
                THEN (Unit * Sigma(g, s, v) * Sigma(g, v, t)) \div Sigma(g, s, t)
                ELSE 0
        total(v) ==
            LET ends == { st \in (g.nodes \ {v}) \X (g.nodes \ {v}) :
                            st[1] # st[2] }
            IN  SetSum(ends, [ st \in ends |-> share(v, st) ])
    IN  [ v \in g.nodes |->
            IF n <= 2 THEN total(v) ELSE total(v) \div ((n - 1) * (n - 2)) ]

(* nx.pagerank(G, weight="weight") with its defaults: damping 0.85, at     *)
(* most 100 iterations.  The tolerance of the fixed-point iteration is     *)
(* 1e-4 per vertex (the resolution of the values is 1 / Unit).             *)
PRDamping == 85
PRMaxIter == 100
PRTol == Unit \div 10000

Strength(g, u) == SetSum(Nbrs(g, u), [ v \in Nbrs(g, u) |-> g.weight[{u, v}] ])

(* The next iterate at vertex v.                                           *)
PRValue(g, x, v) ==
    LET n == Cardinality(g.nodes)
        dangling == { u \in g.nodes : Strength(g, u) = 0 }
        danglesum == PRDamping * SetSum(dangling, x)
    IN  ( SetSum(Nbrs(g, v),
                 [ u \in Nbrs(g, v) |->
                     (PRDamping * x[u] * g.weight[{u, v}]) \div Strength(g, u) ])
          + danglesum \div n
          + (100 - PRDamping) * (Unit \div n) ) \div 100

(* The next iterate on the vertices S, as an explicit function.            *)
RECURSIVE PRStepOn(_, _, _)
PRStepOn(g, x, S) ==
    LET v == CHOOSE u \in S : TRUE
    IN  IF S = {v} THEN v :> PRValue(g, x, v)
        ELSE (v :> PRValue(g, x, v)) @@ PRStepOn(g, x, S \ {v})

PRStep(g, x) == PRStepOn(g, x, g.nodes)

AbsDiff(a, b) == IF a < b THEN b - a ELSE a - b

RECURSIVE PRIterate(_, _, _)
PRIterate(g, x, it) ==
    IF it > PRMaxIter THEN [converged |-> FALSE, x |-> x]
    ELSE LET y == PRStep(g, x)
             err == SetSum(g.nodes, [ v \in g.nodes |-> AbsDiff(y[v], x[v]) ])
         IN  IF err < Cardinality(g.nodes) * PRTol
             THEN [converged |-> TRUE, x |-> y]
             ELSE PRIterate(g, y, it + 1)

PageRank(g) ==
    PRIterate(g, [ v \in g.nodes |-> Unit \div Cardinality(g.nodes) ], 1)

PageRankOrZero_NoExcept(g, failed) == PageRank(g).x

(* The try/except around nx.pagerank: every vertex gets 0.0 when it raises *)
(* (failed is any other exception of the call).                            *)
PageRankOrZero(g, failed) ==
    LET r == PageRank(g)
    IN  IF failed \/ ~r.converged THEN [ v \in g.nodes |-> 0 ] ELSE r.x

(* The orders in which G.nodes() can yield the vertices: the initial ones  *)
(* in the iteration order of the Python set all_users (any order), then    *)
(* the ones add_edge inserted.                                             *)
NodeOrders(g) ==
    LET first == g.nodes \ Range(g.appended)
    IN  { p \o g.appended :
            p \in { q \in [1..Cardinality(first) -> first] :
                      \A i, j \in DOMAIN q : i # j => q[i] # q[j] } }

KeyHigher(a, b) ==
    \/ a.pagerank > b.pagerank
    \/ a.pagerank = b.pagerank /\ a.degree > b.degree
    \/ a.pagerank = b.pagerank /\ a.degree = b.degree
          /\ a.betweenness > b.betweenness

(* df.sort_values(by=[pagerank, degree, betweenness], ascending=False):    *)
(* a stable sort, rows with equal keys keep their order.                   *)
RECURSIVE SortValues(_)
SortValues(rows) ==
    IF rows = << >> THEN << >>
    ELSE LET init == SortValues(SubSeq(rows, 1, Len(rows) - 1))
             r == rows[Len(rows)]
             k == Cardinality({ i \in DOMAIN init : ~KeyHigher(r, init[i]) })
         IN  SubSeq(init, 1, k) \o << r >> \o SubSeq(init, k + 1, Len(init))

CentralityRows(g, order, failed) ==
    LET deg == DegreeCentrality(g)
        btw == BetweennessCentrality(g)
        pr == PageRankOrZero(g, failed)
    IN  [ i \in DOMAIN order |->
            [ user |-> order[i], degree |-> deg[order[i]],
              betweenness |-> btw[order[i]], pagerank |-> pr[order[i]] ] ]

(* compute_centralities on G, nx.pagerank raising (failed) or returning.    *)
CentralitiesStep(failed) ==
    /\ pc = "built"
    /\ \/ /\ G.nodes = {}
          /\ df_cent' = << >>
       \/ /\ G.nodes # {}
          /\ \E order \in NodeOrders(G) :
                df_cent' = SortValues(CentralityRows(G, order, failed))
    /\ pc' = "ranked"
    /\ UNCHANGED << posts_csv, comments_csv, min_edge_weight, top_n, posts_df,
                    comments_df, G, out_csv, out_png, raised, returned,
                    main_pc, fresh >>

ComputeCentralities == \E failed \in BOOLEAN : CentralitiesStep(failed)

----------------------------------------------------------------------------
(* save_top_influencers, draw_graph and the end of detect_superspreaders.  *)

(* DataFrame.head(n): the first n rows, all but the last -n when n < 0.    *)
DfHead(df, n) ==
    IF n >= 0 THEN SubSeq(df, 1, Min(n, Len(df)))
    ELSE SubSeq(df, 1, Max(Len(df) + n, 0))

TopNodes(df, n) == { DfHead(df, n)[i].user : i \in DOMAIN DfHead(df, n) }

SaveTopInfluencers ==
    /\ pc = "ranked"
    /\ out_csv' = [written |-> TRUE, rows |-> DfHead(df_cent, top_n)]
    /\ pc' = "saved"
    /\ UNCHANGED << posts_csv, comments_csv, min_edge_weight, top_n, posts_df,
                    comments_df, G, df_cent, out_png, raised, returned,
                    main_pc, fresh >>

(* lines 185-188: nothing to draw, a warning and no image.                 *)
DrawNothing ==
    /\ pc = "saved"
    /\ TopNodes(df_cent, top_n) = {}
    /\ pc' = "drawn"
    /\ UNCHANGED << posts_csv, comments_csv, min_edge_weight, top_n, posts_df,
                    comments_df, G, df_cent, out_csv, out_png, raised, returned,
                    main_pc, fresh >>

(* G.subgraph(nodes).copy(): the induced subgraph, a graph of its own.     *)
Subgraph(g, S) ==
    LET E == { e \in Edges(g) : e \subseteq S }
    IN  [ nodes |-> g.nodes \cap S,
          appended |-> SelectSeq(g.appended, LAMBDA x : x \in S),
          weight |-> [ e \in E |-> g.weight[e] ],
          type |-> [ e \in E |-> g.type[e] ] ]

DrawGraph_InPlace ==
    /\ pc = "saved"
    /\ TopNodes(df_cent, top_n) # {}
    /\ G' = Subgraph(G, TopNodes(df_cent, top_n))
    /\ out_png' = [written |-> TRUE, nodes |-> G'.nodes]
    /\ pc' = "drawn"
    /\ UNCHANGED << posts_csv, comments_csv, min_edge_weight, top_n, posts_df,
                    comments_df, df_cent, out_csv, raised, returned,
                    main_pc, fresh >>

(* lines 190-204: the induced subgraph is laid out, drawn and saved.       *)
DrawGraph ==
    /\ pc = "saved"
    /\ TopNodes(df_cent, top_n) # {}
    /\ out_png' = [written |-> TRUE,
                   nodes |-> Subgraph(G, TopNodes(df_cent, top_n)).nodes]
    /\ pc' = "drawn"
    /\ UNCHANGED << posts_csv, comments_csv, min_edge_weight, top_n, posts_df,
                    comments_df, G, df_cent, out_csv, raised, returned,
                    main_pc, fresh >>

(* lines 190-204: the layout, the drawing or savefig raises; nothing in    *)
(* draw_graph or detect_superspreaders catches it.                         *)
DrawGraphFails ==
    /\ pc = "saved"
    /\ TopNodes(df_cent, top_n) # {}
    /\ raised' = "RenderError"
    /\ pc' = "failed"
    /\ UNCHANGED << posts_csv, comments_csv, min_edge_weight, top_n, posts_df,
                    comments_df, G, df_cent, out_csv, out_png, returned,
                    main_pc, fresh >>

(* line 221: return df_cent.                                               *)
Return ==
    /\ pc = "drawn"
    /\ returned' = TRUE
    /\ pc' = "done"
    /\ UNCHANGED << posts_csv, comments_csv, min_edge_weight, top_n, posts_df,
                    comments_df, G, df_cent, out_csv, out_png, raised,
                    main_pc, fresh >>

----------------------------------------------------------------------------
(* The inputs.                                                             *)

Cells(users) == Pids \X (users \cup {NA})

(* The rows of a file with the given header: a one-column file keeps the   *)
(* second cell of each row.                                                *)
Shape(cols, rows) ==
    IF Len(cols) = 1 THEN [ i \in DOMAIN rows |-> << rows[i][2] >> ] ELSE rows

(* Both files exist, with the given headers and at most n rows in all.     *)
TwoFiles(users, n, pcols, ccols) ==
    \E k \in 0..n : \E p \in [1..k -> Cells(users)] :
        \E j \in 0..(n - k) : \E c \in [1..j -> Cells(users)] :
            /\ posts_csv = File(pcols, Shape(pcols, p))
            /\ comments_csv = File(ccols, Shape(ccols, c))

(* At least one of the two files is missing; the other has at most n rows. *)
MissingFile(users, n, pcols, ccols) ==
    \/ /\ posts_csv = AbsentFile
       /\ comments_csv = AbsentFile
    \/ /\ posts_csv = AbsentFile
       /\ \E j \in 0..n : \E c \in [1..j -> Cells(users)] :
              comments_csv = File(ccols, Shape(ccols, c))
    \/ /\ comments_csv = AbsentFile
       /\ \E k \in 0..n : \E p \in [1..k -> Cells(users)] :
              posts_csv = File(pcols, Shape(pcols, p))

InitCommon ==
    /\ main_pc = "none"
    /\ fresh = {}
    /\ pc = "start"
    /\ posts_df = << >>
    /\ comments_df = << >>
    /\ G = EmptyGraph
    /\ df_cent = << >>
    /\ out_csv = NoOutput
    /\ out_png = NoImage
    /\ raised = "none"
    /\ returned = FALSE

(* build_interaction_graph called on two files with the canonical columns: *)
(* with the default minimum edge weight on up to MaxRows rows (or with a   *)
(* file missing), with a larger one on up to MaxRows - 1 rows.             *)
InitBuild ==
    /\ \/ /\ min_edge_weight = DefaultMinEdgeWeight
          /\ \/ TwoFiles(Users, MaxRows, << "id", "author" >>,
                          << "post_id", "comment_author" >>)
             \/ MissingFile(Users, MaxRows - 1, << "id", "author" >>,
                            << "post_id", "comment_author" >>)
       \/ /\ min_edge_weight \in (DefaultMinEdgeWeight + 1)..MaxMinWeight
          /\ TwoFiles(Users, MaxRows - 1, << "id", "author" >>,
                      << "post_id", "comment_author" >>)
    /\ top_n = DefaultTopN
    /\ InitCommon

NextBuild ==
    \/ LoadFails
    \/ LoadAndAddNodes
    \/ ReplyEdges
    \/ CoCommentEdges

SpecBuild == InitBuild /\ [][NextBuild]_vars

PostSchemas == { << "id", "author" >>, << "url", "title" >>, << "title", "author" >> }
CommentSchemas == { << "post_id", "comment_author" >>, << "post_id", "body" >>,
                    << "body" >> }

(* detect_superspreaders called on two files: any top_n with the canonical *)
(* columns, the default top_n with any columns or a missing file.          *)
InitRun ==
    /\ \/ /\ top_n \in (-MaxTopN..MaxTopN) \cup {DefaultTopN}
          /\ TwoFiles(RunUsers, RunMaxRows, << "id", "author" >>,
                      << "post_id", "comment_author" >>)
       \/ /\ top_n = DefaultTopN
          /\ \E pcols \in PostSchemas, ccols \in CommentSchemas :
                \/ TwoFiles(RunUsers, RunMaxRows, pcols, ccols)
                \/ MissingFile(RunUsers, RunMaxRows, pcols, ccols)
    /\ min_edge_weight = DefaultMinEdgeWeight
    /\ InitCommon

Next ==
    \/ LoadFails
    \/ LoadAndAddNodes
    \/ ReplyEdges
    \/ CoCommentEdges
    \/ ComputeCentralities
    \/ SaveTopInfluencers
    \/ DrawNothing
    \/ DrawGraph
    \/ DrawGraphFails
    \/ Return

Spec == InitRun /\ [][Next]_vars

----------------------------------------------------------------------------
(* main.py: the pipeline up to the end of detect_superspreaders.  The two  *)
(* files are output/raw_posts.csv and output/comments_raw.csv; at the      *)
(* start of a run they are as a prior run left them, or absent.            *)

(* The columns of raw_posts.csv the graph construction looks at, and the   *)
(* columns of comments_raw.csv.                                            *)
RawPostCols == << "url", "title" >>
RawCommentCols == << "post_id", "comment_author" >>

PriorPosts == { AbsentFile, File(RawPostCols, << << "p2", "song" >> >>) }

PriorComments ==
    { AbsentFile,
      File(RawCommentCols, << >>),
      File(RawCommentCols, << << "p2", "alice" >>, << "p2", "bob" >> >>) }

InitMain ==
    /\ main_pc = "fetch"
    /\ fresh = {}
    /\ posts_csv \in PriorPosts
    /\ comments_csv \in PriorComments
    /\ min_edge_weight = DefaultMinEdgeWeight
    /\ top_n = DefaultTopN
    /\ pc = "idle"
    /\ posts_df = << >>
    /\ comments_df = << >>
    /\ G = EmptyGraph
    /\ df_cent = << >>
    /\ out_csv = NoOutput
    /\ out_png = NoImage
    /\ raised = "none"
    /\ returned = FALSE

(* main.py lines 31-34, reddit_fetch.py lines 30-46: the posts are fetched *)
(* (at least one) and raw_posts.csv is written, with no author column.     *)
FetchAll ==
    /\ main_pc = "fetch"
    /\ \E k \in 1..MainMaxRows : \E rows \in [1..k -> Pids \X {"song"}] :
          posts_csv' = File(RawPostCols, rows)
    /\ fresh' = fresh \cup {"posts"}
    /\ main_pc' = "clean"
    /\ UNCHANGED << comments_csv, min_edge_weight, top_n, pc, posts_df,
                    comments_df, G, df_cent, out_csv, out_png, raised, returned >>

(* main.py lines 31-34: fetching or writing the posts raises; nothing in   *)
(* main catches it.                                                        *)
FetchAllFails ==
    /\ main_pc = "fetch"
    /\ main_pc' = "aborted"
    /\ raised' = "FetchError"
    /\ UNCHANGED << posts_csv, comments_csv, min_edge_weight, top_n, pc,
                    posts_df, comments_df, G, df_cent, out_csv, out_png,
                    returned, fresh >>

(* main.py lines 38-42: clean_dataset and analyze_trends write files of    *)
(* their own and hand the posts that mention a song or a trend on.         *)
CleanAndAnalyze ==
    /\ main_pc = "clean"
    /\ main_pc' = "sentiment"
    /\ UNCHANGED << posts_csv, comments_csv, min_edge_weight, top_n, pc,
                    posts_df, comments_df, G, df_cent, out_csv, out_png,
                    raised, returned, fresh >>

(* The post identifiers process_sentiment can write: those of the posts    *)
(* fetched in this run.                                                    *)
FetchedIds == { posts_csv.rows[i][1] : i \in DOMAIN posts_csv.rows }

(* sentiment_analysis.py lines 113-167: the comments of the posts are      *)
(* fetched and comments_raw.csv is written (with the header alone when     *)
(* there is no comment).                                                   *)
ProcessSentiment ==
    /\ main_pc = "sentiment"
    /\ \E k \in 0..MainMaxRows :
          \E rows \in [1..k -> FetchedIds \X (RunUsers \cup {Deleted})] :
              comments_csv' = File(RawCommentCols, rows)
    /\ fresh' = fresh \cup {"comments"}
    /\ main_pc' = "detect"
    /\ UNCHANGED << posts_csv, min_edge_weight, top_n, pc, posts_df,
                    comments_df, G, df_cent, out_csv, out_png, raised, returned >>

(* sentiment_analysis.py lines 153-169: opening comments_raw.csv for       *)
(* writing raises; the except clause prints a warning and the step         *)
(* returns as usual.  The file stays as it was.                            *)
ProcessSentimentSaveFails ==
    /\ main_pc = "sentiment"
    /\ main_pc' = "detect"
    /\ UNCHANGED << posts_csv, comments_csv, min_edge_weight, top_n, pc,
                    posts_df, comments_df, G, df_cent, out_csv, out_png,
                    raised, returned, fresh >>

(* main.py lines 52-58: detect_superspreaders is called on the two files.  *)
CallDetect ==
    /\ main_pc = "detect"
    /\ pc = "idle"
    /\ pc' = "start"
    /\ main_pc' = "detecting"
    /\ UNCHANGED << posts_csv, comments_csv, min_edge_weight, top_n, posts_df,
                    comments_df, G, df_cent, out_csv, out_png, raised,
                    returned, fresh >>

(* main.py lines 60-66: detect_superspreaders returned, main goes on.      *)
DetectReturns ==
    /\ main_pc = "detecting"
    /\ pc = "done"
    /\ main_pc' = "after"
    /\ UNCHANGED << posts_csv, comments_csv, min_edge_weight, top_n, pc,
                    posts_df, comments_df, G, df_cent, out_csv, out_png,
                    raised, returned, fresh >>

(* main.py lines 52-58: detect_superspreaders raised; main has no handler. *)
DetectRaises ==
    /\ main_pc = "detecting"
    /\ pc = "failed"
    /\ main_pc' = "aborted"
    /\ UNCHANGED << posts_csv, comments_csv, min_edge_weight, top_n, pc,
                    posts_df, comments_df, G, df_cent, out_csv, out_png,
                    raised, returned, fresh >>

(* The steps of a run of main.  draw_graph's branch for an empty table is  *)
(* not among them: raw_posts.csv has a row, so the graph has a vertex and  *)
(* the table a record (NothingToDrawNeverInMain).                          *)
NextMain ==
    \/ FetchAll
    \/ FetchAllFails
    \/ CleanAndAnalyze
    \/ ProcessSentiment
    \/ ProcessSentimentSaveFails
    \/ CallDetect
    \/ LoadFails
    \/ LoadAndAddNodes
    \/ ReplyEdges
    \/ CoCommentEdges
    \/ ComputeCentralities
    \/ SaveTopInfluencers
    \/ DrawGraph
    \/ DrawGraphFails
    \/ Return
    \/ DetectReturns
    \/ DetectRaises

SpecMain == InitMain /\ [][NextMain]_vars

----------------------------------------------------------------------------
(* Properties of the built graph.                                          *)

GraphBuilt ==
    \/ pc \in {"built", "ranked", "saved", "drawn", "done"}
    \/ pc = "failed" /\ raised # "FileNotFoundError"

Accounts == AllUsers(posts_df, comments_df) \cup G.nodes

Matched(c) == \E j \in DOMAIN posts_df : posts_df[j].post_id = c.post_id

(* The joined rows between u and v: a comment row and a post row with the  *)
(* same identifier, written by u and v in either orientation.              *)
ReplyIncrements(u, v) ==
    Cardinality({ ij \in (DOMAIN comments_df) \X (DOMAIN posts_df) :
        /\ comments_df[ij[1]].post_id = posts_df[ij[2]].post_id
        /\ comments_df[ij[1]].comment_author # posts_df[ij[2]].post_author
        /\ {comments_df[ij[1]].comment_author, posts_df[ij[2]].post_author}
              = {u, v} })

CommentersOf(pid) ==
    { comments_df[i].comment_author :
        i \in { k \in DOMAIN comments_df : comments_df[k].post_id = pid } }

(* The post-identifier groups in which u and v are both commenters.        *)
CoIncrements(u, v) ==
    Cardinality({ pid \in { comments_df[i].post_id : i \in DOMAIN comments_df } :
        {u, v} \subseteq CommentersOf(pid) })

(* C1: after build_interaction_graph the sentinel "[deleted]" is no vertex *)
(* of the graph and no endpoint of an edge.                                *)
C1_DeletedNeverInGraph ==
    GraphBuilt =>
        /\ Deleted \notin G.nodes
        /\ \A e \in Edges(G) : Deleted \notin e

(* C2: with minimum edge weight 1, the weight of every pair of accounts is *)
(* its reply increments plus its co-participation increments, the pair has *)
(* no edge exactly when that sum is 0, and the alice/bob/carol scenario    *)
(* yields the weights 2, 2 and 1.                                          *)
C2_WeightIsRepliesPlusCoParticipation ==
    (GraphBuilt /\ min_edge_weight = 1) =>
        /\ \A u, v \in Accounts :
              u # v =>
                /\ Weight(G, u, v) = ReplyIncrements(u, v) + CoIncrements(u, v)
                /\ HasEdge(G, u, v) <=>
                      ReplyIncrements(u, v) + CoIncrements(u, v) # 0
        /\ ( /\ posts_df = << [post_id |-> "p1", post_author |-> "alice"] >>
             /\ comments_df =
                  << [post_id |-> "p1", comment_author |-> "bob"],
                     [post_id |-> "p1", comment_author |-> "carol"],
                     [post_id |-> "p1", comment_author |-> "alice"] >> )
           => /\ Weight(G, "alice", "bob") = 2
              /\ Weight(G, "alice", "carol") = 2
              /\ Weight(G, "bob", "carol") = 1

(* The statement of C2 for the pairs of accounts other than the sentinel.  *)
WeightsOfNamedAccounts ==
    (GraphBuilt /\ min_edge_weight = 1) =>
        \A u, v \in Accounts \ {Deleted} :
            u # v =>
                Weight(G, u, v) = ReplyIncrements(u, v) + CoIncrements(u, v)

(* C3: a comment whose post identifier matches no post adds no edge and no *)
(* weight in the reply pass (the graph after the reply pass is the one the *)
(* matched comments alone produce), and it is joined to every other        *)
(* commenter of its own post-identifier group.                             *)
C3_UnmatchedCommentHasNoReplyEdge ==
    /\ pc = "reply" =>
          G.weight =
            ReplyPass([EmptyGraph EXCEPT !.nodes = AllUsers(posts_df, comments_df)],
                      SelectSeq(comments_df, Matched), posts_df,
                      min_edge_weight).weight
    /\ GraphBuilt =>
          \A i, k \in DOMAIN comments_df :
              ( /\ ~Matched(comments_df[i])
                /\ comments_df[k].post_id = comments_df[i].post_id
                /\ comments_df[k].comment_author # comments_df[i].comment_author )
              => HasEdge(G, comments_df[i].comment_author,
                            comments_df[k].comment_author)

(* C9: for every minimum edge weight m the graph holds exactly the pairs   *)
(* whose accumulated weight (reply plus co-participation increments) is at *)
(* least m, each with that weight.  Stated for the pairs of accounts other *)
(* than the sentinel.                                                      *)
C9_ThresholdAfterAccumulation ==
    GraphBuilt =>
        \A u, v \in Accounts \ {Deleted} :
            u # v =>
                LET acc == ReplyIncrements(u, v) + CoIncrements(u, v)
                IN  /\ HasEdge(G, u, v) <=> acc >= min_edge_weight
                    /\ HasEdge(G, u, v) => G.weight[{u, v}] = acc

(* C10: the graph has no self-loop: every edge joins two distinct          *)
(* accounts, at every point of the construction.                           *)
C10_NoSelfLoop == \A e \in Edges(G) : Cardinality(e) = 2

(* An account commented twice on its own post and the graph has an edge.   *)
C10_Witness ==
    /\ pc = "built"
    /\ Edges(G) # {}
    /\ \E i, k \in DOMAIN comments_df : \E j \in DOMAIN posts_df :
          /\ i # k
          /\ comments_df[i] = comments_df[k]
          /\ comments_df[i].post_id = posts_df[j].post_id
          /\ comments_df[i].comment_author = posts_df[j].post_author

(* The sum of the weights of all the edges of g.                           *)
RECURSIVE TotalWeight(_, _)
TotalWeight(g, E) ==
    IF E = {} THEN 0
    ELSE LET e == CHOOSE x \in E : TRUE
         IN  g.weight[e] + TotalWeight(g, E \ {e})

PostIdsOfComments == { comments_df[i].post_id : i \in DOMAIN comments_df }

(* k * (k - 1) / 2 summed over the post-identifier groups, k being the     *)
(* number of distinct commenters of the group.                             *)
RECURSIVE PairUnits(_)
PairUnits(pids) ==
    IF pids = {} THEN 0
    ELSE LET pid == CHOOSE x \in pids : TRUE
             k == Cardinality(CommentersOf(pid))
         IN  (k * (k - 1)) \div 2 + PairUnits(pids \ {pid})

(* C11: the co-participation pass adds to every unordered pair of distinct *)
(* commenters one weight unit per post-identifier group that holds both,   *)
(* whatever the number of comments each wrote, and nothing else: in all    *)
(* k * (k - 1) / 2 units per group of k distinct commenters, none for a    *)
(* group of fewer than 2.                                                  *)
C11_CoParticipationUnits ==
    [][ (pc = "reply" /\ pc' = "built") =>
          /\ \A u, v \in G'.nodes :
                Weight(G', u, v) - Weight(G, u, v) =
                    (IF u = v THEN 0 ELSE CoIncrements(u, v))
          /\ TotalWeight(G', Edges(G')) - TotalWeight(G, Edges(G))
                = PairUnits(PostIdsOfComments) ]_vars

(* A group of three distinct commenters, one of whom wrote two comments,   *)
(* went through the co-participation pass: three units, one per pair.      *)
C11_Witness ==
    /\ pc = "built"
    /\ Len(comments_df) = 4
    /\ \E pid \in Pids :
          /\ CommentersOf(pid) = Users
          /\ \A i \in DOMAIN comments_df : comments_df[i].post_id = pid
    /\ \A u, v \in Users : u # v => Weight(G, u, v) >= 1

(* s with two neighbouring rows exchanged.  Every order of the rows of s   *)
(* is reached by a chain of such exchanges.                                *)
Exchanges(s) ==
    { [s EXCEPT ![i] = s[i + 1], ![i + 1] = s[i]] : i \in 1..(Len(s) - 1) }

(* H has the vertices of the built graph and its weight for every pair of  *)
(* vertices, the pair taken in either orientation.                         *)
SameGraph(H) ==
    /\ H.nodes = G.nodes
    /\ Edges(H) = Edges(G)
    /\ \A u, v \in G.nodes :
          /\ Weight(H, u, v) = Weight(G, u, v)
          /\ Weight(H, v, u) = Weight(G, u, v)

(* C12: the built graph does not depend on the order of the post rows and  *)
(* of the comment rows: exchanging two neighbouring post rows or two       *)
(* neighbouring comment rows gives the same vertex set and the same weight *)
(* for every pair of vertices.  The inputs of the model are all the row    *)
(* sequences up to MaxRows rows, so the graphs of any two orders of the    *)
(* same rows are equal, through the chain of exchanges that leads from one *)
(* order to the other.                                                     *)
C12_RowOrderDoesNotMatter ==
    pc = "built" =>
        /\ \A p \in Exchanges(posts_df) :
              SameGraph(BuildGraph(p, comments_df, min_edge_weight))
        /\ \A c \in Exchanges(comments_df) :
              SameGraph(BuildGraph(posts_df, c, min_edge_weight))

(* A graph with an edge was built from two different post rows with one    *)
(* post identifier and two different comment rows, so that the orders of   *)
(* both relations can differ.                                              *)
C12_Witness ==
    /\ pc = "built"
    /\ Len(posts_df) = 2
    /\ Len(comments_df) = 2
    /\ posts_df[1].post_id = posts_df[2].post_id
    /\ posts_df[1].post_author \in Users
    /\ posts_df[2].post_author \in Users \ {posts_df[1].post_author}
    /\ comments_df[1] # comments_df[2]
    /\ comments_df[1].post_id = posts_df[1].post_id
    /\ \E e \in Edges(G) : G.weight[e] >= 2

(* C18: the reply pass adds at most one weight unit per comment row: the   *)
(* total weight of the graph after the reply pass is at most the number of *)
(* comment rows, whatever the post rows are.                               *)
C18_ReplyWeightAtMostCommentRows ==
    pc = "reply" => TotalWeight(G, Edges(G)) <= Len(comments_df)

(* The statement of C18 for post relations without a repeated identifier.  *)
ReplyWeightWithDistinctPostIds ==
    ( /\ pc = "reply"
      /\ \A i, j \in DOMAIN posts_df :
            posts_df[i].post_id = posts_df[j].post_id => i = j )
    => TotalWeight(G, Edges(G)) <= Len(comments_df)

----------------------------------------------------------------------------
(* Properties of the ranking, the outputs and the failures of a run.       *)

Ranked ==
    \/ pc \in {"ranked", "saved", "drawn", "done"}
    \/ pc = "failed" /\ raised = "RenderError"

SameScores(a, b) ==
    /\ a.pagerank = b.pagerank
    /\ a.degree = b.degree
    /\ a.betweenness = b.betweenness

(* C4: the ranked list is ordered by descending PageRank, then degree,     *)
(* then betweenness, and records equal on all three scores are in          *)
(* ascending order of account identifier.  Stated for the records of the   *)
(* accounts other than the sentinel.                                       *)
C4_RankedByScoresThenAccount ==
    Ranked =>
        \A i, j \in DOMAIN df_cent :
            (i < j /\ df_cent[i].user # Deleted /\ df_cent[j].user # Deleted) =>
                \/ KeyHigher(df_cent[i], df_cent[j])
                \/ /\ SameScores(df_cent[i], df_cent[j])
                   /\ LexRank(df_cent[i].user) < LexRank(df_cent[j].user)

NoPostAuthorColumn ==
    /\ posts_csv.exists
    /\ comments_csv.exists
    /\ \A i \in DOMAIN posts_csv.cols :
          Substrings(posts_csv.cols[i]) \cap {"author", "user", "by"} = {}

(* C14: when the post file has no column resolvable as the post author,    *)
(* the post authors add no vertex and no reply edge: the vertices of the   *)
(* built graph are comment authors and its edges are co-participation      *)
(* edges.  Stated for the vertices and edges other than the sentinel       *)
(* "[deleted]" and its edges.                                              *)
C14_NoPostAuthorColumnAddsNothing ==
    (NoPostAuthorColumn /\ GraphBuilt) =>
        /\ G.nodes \ {Deleted} \subseteq
              { comments_df[i].comment_author : i \in DOMAIN comments_df }
        /\ \A e \in Edges(G) :
              Deleted \notin e => G.type[e] = "co_comment"

EmptyComments == comments_csv.exists /\ comments_csv.rows = << >>

PostAuthors == { posts_df[i].post_author : i \in DOMAIN posts_df }

(* The PageRank column is uniform: 1 / |V| for every vertex, or 0 for      *)
(* every vertex when nx.pagerank raised.                                   *)
UniformPageRank ==
    \/ \A i \in DOMAIN df_cent : df_cent[i].pagerank = Unit \div Cardinality(G.nodes)
    \/ \A i \in DOMAIN df_cent : df_cent[i].pagerank = 0

(* C15: with a comment file that is present and empty, the built graph has *)
(* exactly the post authors as vertices and no edge, and every record of   *)
(* the centrality table has degree 0, betweenness 0 and PageRank 1 / |V|,  *)
(* for every number of vertices from 1 on.                                 *)
C15_EmptyCommentsGiveIsolatedAuthors ==
    EmptyComments =>
        /\ GraphBuilt => (G.nodes = PostAuthors /\ Edges(G) = {})
        /\ Ranked =>
              /\ Len(df_cent) = Cardinality(G.nodes)
              /\ UniformPageRank
              /\ \A i \in DOMAIN df_cent :
                    df_cent[i].degree = 0 /\ df_cent[i].betweenness = 0

(* The statement of C15 for the graphs of at least two vertices.           *)
EmptyCommentsWithSeveralAuthors ==
    (EmptyComments /\ Ranked /\ Cardinality(G.nodes) >= 2) =>
        /\ G.nodes = PostAuthors
        /\ Edges(G) = {}
        /\ UniformPageRank
        /\ \A i \in DOMAIN df_cent :
              df_cent[i].degree = 0 /\ df_cent[i].betweenness = 0

(* C16: once build_interaction_graph has returned, no step of the run      *)
(* changes the graph: its vertices, edges, weights and tags stay as they   *)
(* were through compute_centralities, save_top_influencers and draw_graph. *)
C16_GraphUnchangedAfterBuild ==
    [][ GraphBuilt => G' = G ]_vars

(* A run that ended after drawing a proper subgraph of a graph with an     *)
(* edge.                                                                   *)
C16_Witness ==
    /\ pc = "done"
    /\ Edges(G) # {}
    /\ out_csv.written
    /\ out_png.written
    /\ out_png.nodes # G.nodes

(* detect_superspreaders has read the two files.                           *)
DetectHasRead == pc \in {"nodes", "reply", "built", "ranked", "saved", "drawn", "done"}
                    \/ (pc = "failed" /\ raised = "RenderError")

(* C17: in a run of main, the two files detect_superspreaders has read     *)
(* were both written earlier in that run, also when saving the raw         *)
(* comments failed in the sentiment step.                                  *)
C17_DetectReadsFilesOfThisRun ==
    (main_pc # "none" /\ DetectHasRead) => {"posts", "comments"} \subseteq fresh

(* The statement of C17 for the posts file alone.                          *)
PostsFileIsOfThisRun ==
    (main_pc # "none" /\ DetectHasRead) => "posts" \in fresh

(* In a run of main the table is never empty when draw_graph is called.    *)
NothingToDrawNeverInMain ==
    (main_pc # "none" /\ pc = "saved") => TopNodes(df_cent, top_n) # {}

(* C13: when nx.pagerank raises, compute_centralities still returns: the   *)
(* run goes on without an exception, the table has one record per vertex,  *)
(* each with PageRank 0 and the degree and betweenness scores of the       *)
(* vertex; for a graph without vertices the table is empty.                *)
C13_PageRankFailureGivesZeros ==
    [][ /\ pc = "built" => (pc' = "ranked" /\ raised' = "none")
        /\ (pc = "built" /\ G.nodes = {}) => df_cent' = << >>
        /\ CentralitiesStep(TRUE) =>
              /\ Len(df_cent') = Cardinality(G.nodes)
              /\ { df_cent'[i].user : i \in DOMAIN df_cent' } = G.nodes
              /\ \A i \in DOMAIN df_cent' :
                    /\ df_cent'[i].pagerank = 0
                    /\ df_cent'[i].degree = DegreeCentrality(G)[df_cent'[i].user]
                    /\ df_cent'[i].betweenness =
                          BetweennessCentrality(G)[df_cent'[i].user] ]_vars

(* The table of a graph with an edge after nx.pagerank raised: every       *)
(* PageRank is 0 (the values nx.pagerank returns sum to 1), the degree     *)
(* scores are not.                                                         *)
C13_Witness ==
    /\ pc = "ranked"
    /\ Edges(G) # {}
    /\ Len(df_cent) >= 2
    /\ \A i \in DOMAIN df_cent : df_cent[i].pagerank = 0
    /\ \E i \in DOMAIN df_cent : df_cent[i].degree > 0

(* The selection the contract describes: the first min(n, L) records for   *)
(* n > 0, none for n <= 0.                                                 *)
FirstN(df, n) == IF n <= 0 THEN << >> ELSE SubSeq(df, 1, Min(n, Len(df)))

(* C5: the persisted table and the rendered node set are the first         *)
(* min(n, L) records of the ranked list for n > 0 and empty for n <= 0.    *)
C5_TopSelectionIsFirstN ==
    /\ out_csv.written => out_csv.rows = FirstN(df_cent, top_n)
    /\ pc \in {"drawn", "done"} =>
          out_png.nodes =
            { FirstN(df_cent, top_n)[i].user : i \in DOMAIN FirstN(df_cent, top_n) }

(* C6: when the post file or the comment file is missing, the run ends in  *)
(* FileNotFoundError raised to the caller, and neither the ranked table    *)
(* nor the image is written and nothing is returned.                       *)
C6_MissingInputFailsWithoutOutput ==
    (~posts_csv.exists \/ ~comments_csv.exists) =>
        /\ pc \in {"start", "failed"}
        /\ pc = "failed" => raised = "FileNotFoundError"
        /\ ~out_csv.written
        /\ ~out_png.written
        /\ ~returned

(* The run failed on a missing comment file while the post file exists.    *)
C6_Witness ==
    /\ pc = "failed"
    /\ raised = "FileNotFoundError"
    /\ posts_csv.exists
    /\ posts_csv.rows # << >>
    /\ ~comments_csv.exists

NoCommentAuthorColumn ==
    /\ posts_csv.exists
    /\ comments_csv.exists
    /\ \A i \in DOMAIN comments_csv.cols :
          comments_csv.cols[i] \notin
              {"author", "comment_author", "user", "username", "by"}

C8_RenderFailureIsRecovered ==
    /\ raised # "RenderError"
    /\ pc \in {"saved", "drawn", "done", "failed"} /\ raised # "FileNotFoundError"
          => out_csv = [written |-> TRUE, rows |-> DfHead(df_cent, top_n)]

====
